---- MODULE Spec2Model ----
(***************************************************************************)
(* Kandy traffic monitor (src/main.py): the segment catalogue              *)
(* (generate_segments), the per-segment sampler (scrape_segment) and the   *)
(* run loop with its CSV output (main).                                    *)
(*                                                                         *)
(* Representation.                                                         *)
(*  - A Python float coordinate is a fixed-point integer, UnitsPerM units  *)
(*    per metre on the local tangent plane (an affine image of degrees, so *)
(*    linear interpolation is the same map).  At the spans of a road       *)
(*    segment the haversine distance equals the planar distance.           *)
(*  - A Python value stored in a dict is tagged with its type: PyFloat(n)  *)
(*    or PyStr(s); str(v) is Str(v).  None is <<>> and a present value v   *)
(*    is <<v>>.                                                            *)
(*  - A page text is a sequence of one-character strings, so the regular   *)
(*    expressions are computed character by character.                     *)
(*  - distance_km is kept in thousandths of a km, avg_speed_kmh in         *)
(*    hundredths of a km/h (round(x, 2)).                                  *)
(*  - timestamp_utc and process_time_sec are wall-clock readings and are   *)
(*    not modelled.                                                        *)
(***************************************************************************)
EXTENDS Integers, Sequences, FiniteSets, TLC

VARIABLES
    ROADS,         \* roads.ROADS as read by the generation loop (line 77)
    segFile,       \* SEGMENT_FILE: [exists, lines]
    dataFile,      \* DATA_FILE: [exists, lines]
    segments,      \* the list generate_segments returned to main
    genCount,      \* history: how many times the generation loop has run
    genCatalogue,  \* history: the list built by the generation loop
    branch,        \* history: the branch the last generate_segments call took
    pc,            \* main(): "idle" (not running) or "loop" (lines 176-179)
    exit,          \* how the last main() ended: none, ok, generate, scrape
    runs,          \* number of runs of main() started
    results,       \* main's results list
    spc,           \* scrape_segment's position
    attempt,       \* scrape_segment's loop variable
    result,        \* scrape_segment's result dict
    content,       \* the text inner_text returned in this attempt
    exc,           \* the exception the except clause holds
    gotoLog,       \* history: outcomes of page.goto for the current segment
    readAt,        \* history: attempts of this segment whose inner_text returned
    backoffs,      \* history: completed waits of the except clause, this segment
    lastAwait      \* history: source line of the last await the run completed

segVars == <<ROADS, segFile, segments, genCount, genCatalogue, branch>>

mainVars == <<dataFile, pc, exit, runs, results>>

scrapeVars == <<spc, attempt, result, content, exc, gotoLog, readAt, backoffs, lastAwait>>

vars == <<ROADS, segFile, dataFile, segments, genCount, genCatalogue, branch,
          pc, exit, runs, results,
          spc, attempt, result, content, exc, gotoLog, readAt, backoffs, lastAwait>>

(***************************************************************************)
(* Bounds of the model.                                                    *)
(***************************************************************************)
\* route points are GridPoint(0) .. GridPoint(MaxK)
MaxK == 2

\* total number of points in ROADS
MaxTotalPts == 4

\* number of roads in ROADS
MaxRoads == 2

\* runs of main() in the whole-run specification
MaxRuns == 2

\* calls of generate_segments in the segmenter's specification
MaxCalls == 3

(***************************************************************************)
(* Program constants.                                                      *)
(***************************************************************************)
MAX_RETRIES == 2

\* interpolate_points' default max_dist_m
MAX_DIST_M == 5

\* fixed-point resolution of a coordinate: units per metre
UnitsPerM == 60

CSV_HEADERS ==
    <<"segment_id", "start_lat", "start_lng", "end_lat", "end_lng",
      "time_min", "distance_km", "avg_speed_kmh", "status">>

SEGMENT_FIELDS == <<"segment_id", "start_lat", "start_lng", "end_lat", "end_lng">>

(***************************************************************************)
(* Python values.                                                          *)
(***************************************************************************)
None == <<>>

Some(v) == <<v>>

PyFloat(n) == [float |-> n]

PyStr(s) == [str |-> s]

\* str(v) of a dict value: the repr of a float is one-to-one on floats and
\* is modelled by the numeral of the fixed-point value
Str(v) == IF DOMAIN v = {"float"} THEN ToString(v.float) ELSE v.str

\* the csv writer's cell for an optional number: None is written as ""
OptStr(x) == IF x = None THEN "" ELSE ToString(x[1])

Max(a, b) == IF a >= b THEN a ELSE b

Range(s) == {s[i] : i \in DOMAIN s}

(***************************************************************************)
(* Geodesy: haversine, interpolate_points.                                 *)
(***************************************************************************)
\* floor of the square root of n, known to lie in lo..(hi - 1), by bisection
RECURSIVE SqrtIn(_, _, _)
SqrtIn(n, lo, hi) ==
    IF hi - lo <= 1 THEN lo
    ELSE LET mid == (lo + hi) \div 2
         IN  IF mid * mid <= n THEN SqrtIn(n, mid, hi) ELSE SqrtIn(n, lo, mid)

Abs(a) == IF a >= 0 THEN a ELSE 0 - a

\* distance between two points, in units (the source returns km and the
\* caller multiplies by 1000; the model stays in one unit)
haversine(lat1, lng1, lat2, lng2) ==
    SqrtIn((lat2 - lat1) * (lat2 - lat1) + (lng2 - lng1) * (lng2 - lng1),
           0, Abs(lat2 - lat1) + Abs(lng2 - lng1) + 1)

\* the fraction taken over steps + 1 intervals: the last point falls short
\* of (lat2, lng2)
interpolate_points_open(lat1, lng1, lat2, lng2, max_dist_m) ==
    LET total_dist == haversine(lat1, lng1, lat2, lng2)
        steps == Max(1, total_dist \div (max_dist_m * UnitsPerM))
    IN  [k \in 1..(steps + 1) |->
            <<lat1 + ((lat2 - lat1) * (k - 1)) \div (steps + 1),
              lng1 + ((lng2 - lng1) * (k - 1)) \div (steps + 1)>>]

\* lines 51-59: steps = max(1, int(total_dist / max_dist_m)), the points
\* at the fractions i / steps for i in range(steps + 1)
interpolate_points(lat1, lng1, lat2, lng2, max_dist_m) ==
    LET total_dist == haversine(lat1, lng1, lat2, lng2)
        steps == Max(1, total_dist \div (max_dist_m * UnitsPerM))
    IN  [k \in 1..(steps + 1) |->
            <<lat1 + ((lat2 - lat1) * (k - 1)) \div steps,
              lng1 + ((lng2 - lng1) * (k - 1)) \div steps>>]

(***************************************************************************)
(* generate_segments: the generation loops (lines 75-102).                 *)
(***************************************************************************)
\* lines 80-89 (and 93-102): the segments of one pair of consecutive points
PairSegments(p, q, firstId) ==
    LET interp == interpolate_points(p[1], p[2], q[1], q[2], MAX_DIST_M)
    IN  [j \in 1..(Len(interp) - 1) |->
            [segment_id |-> PyStr(ToString(firstId + j - 1)),
             start_lat |-> PyFloat(interp[j][1]),
             start_lng |-> PyFloat(interp[j][2]),
             end_lat |-> PyFloat(interp[j + 1][1]),
             end_lng |-> PyFloat(interp[j + 1][2])]]

\* one traversal direction: for i in range(len(points) - 1)
RECURSIVE DirectionSegments(_, _)
DirectionSegments(points, firstId) ==
    IF Len(points) < 2 THEN <<>>
    ELSE LET here == PairSegments(points[1], points[2], firstId)
         IN  here \o DirectionSegments(Tail(points), firstId + Len(here))

Reversed(s) == [i \in 1..Len(s) |-> s[Len(s) + 1 - i]]

\* the reverse direction numbered from the road's first id again
RoadSegments_restart(points, firstId) ==
    LET fwd == DirectionSegments(points, firstId)
    IN  fwd \o DirectionSegments(Reversed(points), firstId)

\* one road: forward direction, then reverse direction
RoadSegments(points, firstId) ==
    LET fwd == DirectionSegments(points, firstId)
    IN  fwd \o DirectionSegments(Reversed(points), firstId + Len(fwd))

\* for road_name, points in ROADS.items(), segment_id starting at firstId
RECURSIVE BuildSegments(_, _)
BuildSegments(roads, firstId) ==
    IF roads = <<>> THEN <<>>
    ELSE LET here == RoadSegments(Head(roads), firstId)
         IN  here \o BuildSegments(Tail(roads), firstId + Len(here))

(***************************************************************************)
(* The catalogue file: csv.DictWriter and csv.DictReader.                  *)
(***************************************************************************)
\* writer.writeheader(); writer.writerows(segments), fieldnames = the keys
\* of the first segment
CatalogueLines(segs) ==
    <<SEGMENT_FIELDS>> \o
    [k \in 1..Len(segs) |-> [c \in 1..Len(SEGMENT_FIELDS) |-> Str(segs[k][SEGMENT_FIELDS[c]])]]

\* csv.DictReader: the first line names the fields, every other line is a
\* dict of strings keyed by them
DictReader(lines) ==
    IF lines = <<>> THEN <<>>
    ELSE LET names == lines[1]
             Col(n) == CHOOSE c \in 1..Len(names) : names[c] = n
         IN  [k \in 1..(Len(lines) - 1) |->
                [n \in Range(names) |-> PyStr(lines[k + 1][Col(n)])]]

\* the existence test left out: every call generates
CatalogueExists_never == FALSE

\* SEGMENT_FILE.exists()
CatalogueExists == segFile.exists

\* the text of a catalogue as the rest of the program reads it (the URL's
\* f-string, the csv writer): str() of every field
Render(segs) ==
    [k \in 1..Len(segs) |-> [c \in 1..Len(SEGMENT_FIELDS) |-> Str(segs[k][SEGMENT_FIELDS[c]])]]

\* generate_segments(), ROADS drawn from inputs when the generation loop
\* reads it.  With no segment, open(SEGMENT_FILE, "w") has created the file
\* when segments[0] raises IndexError (line 106).
generate_segments(inputs) ==
    IF CatalogueExists
    THEN /\ segments' = DictReader(segFile.lines)
         /\ branch' = "load"
         /\ UNCHANGED <<ROADS, segFile, genCount, genCatalogue>>
    ELSE \E roads \in inputs :
            LET segs == BuildSegments(roads, 1)
            IN  /\ ROADS' = roads
                /\ genCount' = genCount + 1
                /\ genCatalogue' = segs
                /\ IF segs = <<>>
                   THEN /\ segFile' = [exists |-> TRUE, lines |-> <<>>]
                        /\ branch' = "raise"
                        /\ segments' = <<>>
                   ELSE /\ segFile' = [exists |-> TRUE, lines |-> CatalogueLines(segs)]
                        /\ branch' = "generate"
                        /\ segments' = segs

\* the exception a call of generate_segments ended with: only line 106,
\* segments[0] of an empty list, raises
RaisedException == IF branch = "raise" THEN "IndexError" ELSE "none"

(***************************************************************************)
(* Inputs of the segmenter.                                                *)
(***************************************************************************)
\* points on one line, 0 m, 4 m, 12 m, 24 m, ... from the first
GridPoint(k) == <<48 * (2 * k * (k + 1)), 36 * (2 * k * (k + 1))>>

GridPoints == {GridPoint(k) : k \in 0..MaxK}

RoutesOfLen(n) == [1..n -> GridPoints]

\* the ROADS of at most r roads and at most t points in all
RECURSIVE RoadsWithin(_, _)
RoadsWithin(r, t) ==
    IF r = 0 THEN {<<>>}
    ELSE {<<>>} \cup
         UNION {{<<route>> \o rest : route \in RoutesOfLen(n), rest \in RoadsWithin(r - 1, t - n)} :
                n \in 0..t}

RoadInputs == RoadsWithin(MaxRoads, MaxTotalPts)

(***************************************************************************)
(* Regular expressions over a page text (lines 142-146).                   *)
(***************************************************************************)
Digits == {"0", "1", "2", "3", "4", "5", "6", "7", "8", "9"}

DigitsDot == Digits \cup {"."}

Spaces == {" "}

U_h == <<"h">>

U_min == <<"m", "i", "n">>

U_km == <<"k", "m">>

\* the first position from p on whose character is outside cls
RECURSIVE SkipWhile(_, _, _)
SkipWhile(s, p, cls) ==
    IF p <= Len(s) /\ s[p] \in cls THEN SkipWhile(s, p + 1, cls) ELSE p

LitAt(s, p, lit) ==
    /\ p + Len(lit) - 1 <= Len(s)
    /\ \A i \in 1..Len(lit) : s[p + i - 1] = lit[i]

\* cls+ \s* unit matched at p: the position after the match, 0 for no
\* match (the runs are maximal: a shorter run is followed by a character
\* of the run, which neither \s* nor the unit matches)
NumUnitAt(s, p, cls, unit) ==
    LET e == SkipWhile(s, p, cls)
        w == SkipWhile(s, e, Spaces)
    IN  IF e > p /\ LitAt(s, w, unit) THEN w + Len(unit) ELSE 0

\* re.search(r"(cls+)\s*unit", s): None, or the leftmost match with its
\* group 1
SearchNumUnit(s, cls, unit) ==
    LET hits == {p \in 1..Len(s) : NumUnitAt(s, p, cls, unit) # 0}
    IN  IF hits = {} THEN None
        ELSE LET p == CHOOSE q \in hits : \A r \in hits : q <= r
             IN  Some([start |-> p,
                       stop |-> NumUnitAt(s, p, cls, unit),
                       group1 |-> SubSeq(s, p, SkipWhile(s, p, cls) - 1)])

\* re.search(r"(\d+\s*h)?\s*(\d+\s*min)?", s): every part is optional, so
\* the search succeeds at the first position of s, with whatever of the
\* pattern is found right there; the value is group(0)
TimeSearch(s) ==
    LET g1 == NumUnitAt(s, 1, Digits, U_h)
        a == IF g1 # 0 THEN g1 ELSE 1
        w == SkipWhile(s, a, Spaces)
        g2 == NumUnitAt(s, w, Digits, U_min)
        b == IF g2 # 0 THEN g2 ELSE w
    IN  Some(SubSeq(s, 1, b - 1))

DigitVal(c) == CHOOSE d \in 0..9 : ToString(d) = c

\* int(digits)
RECURSIVE PyInt(_)
PyInt(ds) ==
    IF ds = <<>> THEN 0 ELSE 10 * PyInt(SubSeq(ds, 1, Len(ds) - 1)) + DigitVal(ds[Len(ds)])

\* float(s) raises ValueError unless s has a digit and at most one "."
FloatOk(s) ==
    /\ \E i \in DOMAIN s : s[i] \in Digits
    /\ Cardinality({i \in DOMAIN s : s[i] = "."}) <= 1

\* float(s), in thousandths (digits past the third decimal are dropped)
PyFloatOf(s) ==
    LET dots == {i \in DOMAIN s : s[i] = "."}
        d == IF dots = {} THEN Len(s) + 1 ELSE CHOOSE i \in dots : TRUE
        frac == SubSeq(s, d + 1, Len(s))
        f3 == SubSeq(frac \o <<"0", "0", "0">>, 1, 3)
    IN  1000 * PyInt(SubSeq(s, 1, d - 1)) + PyInt(f3)

\* round(distance_km / (total_min / 60), 2), in hundredths
AvgSpeed(dist, total_min) == (2 * 6 * dist + total_min) \div (2 * total_min)

(***************************************************************************)
(* scrape_segment: the body of the try block after the text is read        *)
(* (lines 141-152).  raised: float() raised ValueError at line 149, after  *)
(* line 148 has stored time_min.                                           *)
(***************************************************************************)
ParsedNumber(m) == IF m = None THEN 0 ELSE PyInt(m[1].group1)

\* line 150: if total_min > 0
SpeedGuard(total_min) == total_min > 0

ParseContent(res, text) ==
    LET t_match == TimeSearch(text)
        d_match == SearchNumUnit(text, DigitsDot, U_km)
    IN  IF t_match # None /\ d_match # None
        THEN LET h == ParsedNumber(SearchNumUnit(t_match[1], Digits, U_h))
                 m == ParsedNumber(SearchNumUnit(t_match[1], Digits, U_min))
                 total_min == h * 60 + m
                 r1 == [res EXCEPT !.time_min = Some(total_min)]
             IN  IF ~FloatOk(d_match[1].group1)
                 THEN [result |-> r1, raised |-> TRUE]
                 ELSE LET dist == PyFloatOf(d_match[1].group1)
                          r2 == [r1 EXCEPT !.distance_km = Some(dist)]
                      IN  IF SpeedGuard(total_min)
                          THEN [result |->
                                    [r2 EXCEPT !.avg_speed_kmh = Some(AvgSpeed(dist, total_min)),
                                               !.status = "success"],
                                raised |-> FALSE]
                          ELSE [result |-> r2, raised |-> FALSE]
        ELSE [result |-> res, raised |-> FALSE]

(***************************************************************************)
(* Page texts.                                                             *)
(***************************************************************************)
T_23min == <<"2", "3", " ", "m", "i", "n">>

T_1h30min == <<"1", " ", "h", " ", "3", "0", " ", "m", "i", "n">>

T_3p9km == <<"3", ".", "9", " ", "k", "m">>

T_12p4km == <<"1", "2", ".", "4", " ", "k", "m">>

T_dotkm == <<".", " ", "k", "m">>

T_850m == <<"8", "5", "0", " ", "m">>

T_via == <<"v", "i", "a", " ">>

Sp == <<" ">>

TextGood == T_23min \o Sp \o T_3p9km

TextHours == T_1h30min \o Sp \o T_12p4km

TextLeading == T_via \o T_23min \o Sp \o T_3p9km

TextNoDuration == T_3p9km

TextNoDistance == T_23min

TextMalformed == T_23min \o Sp \o T_dotkm

TextMetres == T_23min \o Sp \o T_850m

TextEmpty == <<>>

PageTexts ==
    {TextGood, TextHours, TextLeading, TextNoDuration, TextNoDistance,
     TextMalformed, TextMetres, TextEmpty}

\* the texts of the whole-run specification
MainTexts == {TextGood, TextNoDuration, TextMalformed}

(***************************************************************************)
(* scrape_segment (lines 115-161), one action per await.                   *)
(***************************************************************************)
\* avg_speed_kmh initialised like process_time_sec, to 0 instead of None
InitialResult_zeroSpeed(seg) ==
    [segment_id |-> seg.segment_id,
     start_lat |-> seg.start_lat,
     start_lng |-> seg.start_lng,
     end_lat |-> seg.end_lat,
     end_lng |-> seg.end_lng,
     time_min |-> None,
     distance_km |-> None,
     avg_speed_kmh |-> Some(0),
     status |-> "failed"]

\* lines 117-129
InitialResult(seg) ==
    [segment_id |-> seg.segment_id,
     start_lat |-> seg.start_lat,
     start_lng |-> seg.start_lng,
     end_lat |-> seg.end_lat,
     end_lng |-> seg.end_lng,
     time_min |-> None,
     distance_km |-> None,
     avg_speed_kmh |-> None,
     status |-> "failed"]

\* line 156: f"error: {str(e)[:40]}", by the kind of exception
ErrorStatus(e) ==
    CASE e = "timeout" -> "error: Timeout 60000ms exceeded."
      [] e = "value" -> "error: could not convert string to float"
      [] OTHER -> "error: page fault"

\* line 155: if attempt == MAX_RETRIES
LastAttempt(a) == a = MAX_RETRIES

\* main's loop calls scrape_segment(page, seg) for the next segment of the
\* catalogue (lines 176-178); lines 116-131 build the result
scrape_enter ==
    /\ pc = "loop"
    /\ spc = "idle"
    /\ Len(results) < Len(segments)
    /\ result' = InitialResult(segments[Len(results) + 1])
    /\ attempt' = 1
    /\ spc' = "goto"
    /\ content' = <<>>
    /\ exc' = "none"
    /\ gotoLog' = <<>>
    /\ readAt' = {}
    /\ backoffs' = 0
    /\ UNCHANGED <<segVars, mainVars, lastAwait>>

\* line 135: await page.goto(url, ...) returns, times out or faults
page_goto ==
    /\ spc = "goto"
    /\ \E o \in {"ok", "timeout", "fault"} :
        /\ gotoLog' = Append(gotoLog, o)
        /\ IF o = "ok"
           THEN spc' = "settle" /\ exc' = exc /\ lastAwait' = 135
           ELSE spc' = "except" /\ exc' = o /\ lastAwait' = lastAwait
    /\ UNCHANGED <<segVars, mainVars, attempt, result, content, readAt, backoffs>>

\* line 136: await page.wait_for_timeout(3000) returns or faults
settle_wait ==
    /\ spc = "settle"
    /\ \E o \in {"ok", "fault"} :
        IF o = "ok"
        THEN spc' = "read" /\ exc' = exc /\ lastAwait' = 136
        ELSE spc' = "except" /\ exc' = o /\ lastAwait' = lastAwait
    /\ UNCHANGED <<segVars, mainVars, attempt, result, content, gotoLog, readAt, backoffs>>

\* line 138: await page.inner_text(...) returns a text, times out or faults
inner_text(texts) ==
    /\ spc = "read"
    /\ \/ \E o \in {"timeout", "fault"} :
            /\ spc' = "except"
            /\ exc' = o
            /\ UNCHANGED <<content, readAt, lastAwait>>
       \/ \E text \in texts :
            /\ content' = text
            /\ readAt' = readAt \cup {attempt}
            /\ spc' = "parse"
            /\ exc' = exc
            /\ lastAwait' = 138
    /\ UNCHANGED <<segVars, mainVars, attempt, result, gotoLog, backoffs>>

\* lines 141-153: the regular expressions, the result's fields, break
parse_content ==
    /\ spc = "parse"
    /\ LET p == ParseContent(result, content)
       IN  /\ result' = p.result
           /\ IF p.raised
              THEN spc' = "except" /\ exc' = "value"
              ELSE spc' = "return" /\ exc' = exc
    /\ UNCHANGED <<segVars, mainVars, attempt, content, gotoLog, readAt, backoffs, lastAwait>>

\* lines 154-157: the except clause.  Its own wait_for_timeout(2000) is
\* inside no try: a fault there leaves scrape_segment and main (which
\* catches nothing), and the run ends with nothing appended to DATA_FILE.
except_clause ==
    /\ spc = "except"
    /\ result' = IF LastAttempt(attempt)
                 THEN [result EXCEPT !.status = ErrorStatus(exc)]
                 ELSE result
    /\ \E o \in {"ok", "fault"} :
        IF o = "ok"
        THEN /\ backoffs' = backoffs + 1
             /\ lastAwait' = 157
             /\ exc' = "none"
             /\ IF attempt < MAX_RETRIES
                THEN attempt' = attempt + 1 /\ spc' = "goto"
                ELSE attempt' = attempt /\ spc' = "return"
             /\ UNCHANGED <<pc, exit>>
        ELSE /\ spc' = "raised"
             /\ pc' = "idle"
             /\ exit' = "scrape"
             /\ UNCHANGED <<backoffs, exc, attempt, lastAwait>>
    /\ UNCHANGED <<segVars, dataFile, runs, results, content, gotoLog, readAt>>

\* lines 159-161 and 179: return result; results.append(res)
scrape_return ==
    /\ spc = "return"
    /\ results' = Append(results, result)
    /\ spc' = "idle"
    /\ UNCHANGED <<segVars, dataFile, pc, exit, runs,
                   attempt, result, content, exc, gotoLog, readAt, backoffs, lastAwait>>

(***************************************************************************)
(* main (lines 165-192).                                                   *)
(***************************************************************************)
\* a result as a row of DATA_FILE (csv.DictWriter.writerow)
ResultRow(r) ==
    <<Str(r.segment_id), Str(r.start_lat), Str(r.start_lng), Str(r.end_lat),
      Str(r.end_lng), OptStr(r.time_min), OptStr(r.distance_km),
      OptStr(r.avg_speed_kmh), r.status>>

\* lines 166-174: generate_segments(), results = [], the browser page (the
\* last await before the loop is line 174).  An exception of
\* generate_segments ends the run.
main_start(inputs) ==
    /\ pc = "idle"
    /\ runs < MaxRuns
    /\ runs' = runs + 1
    /\ generate_segments(inputs)
    /\ results' = <<>>
    /\ spc' = "idle"
    /\ IF branch' = "raise"
       THEN pc' = "idle" /\ exit' = "generate"
       ELSE pc' = "loop" /\ exit' = "none"
    /\ lastAwait' = IF branch' = "raise" THEN 0 ELSE 174
    /\ UNCHANGED <<dataFile, attempt, result, content, exc, gotoLog, readAt, backoffs>>

\* the existence test left out: the header is written by every run
DataFileExists_never == FALSE

\* line 184: file_exists = DATA_FILE.exists()
DataFileExists == dataFile.exists

\* lines 181-192: the loop is over; the results are appended to DATA_FILE,
\* after the header when the file did not exist
main_append ==
    /\ pc = "loop"
    /\ spc = "idle"
    /\ Len(results) = Len(segments)
    /\ dataFile' =
          [exists |-> TRUE,
           lines |-> dataFile.lines
                       \o (IF DataFileExists THEN <<>> ELSE <<CSV_HEADERS>>)
                       \o [k \in 1..Len(results) |-> ResultRow(results[k])]]
    /\ pc' = "idle"
    /\ exit' = "ok"
    /\ UNCHANGED <<segVars, runs, results, scrapeVars>>

(***************************************************************************)
(* Specifications.                                                         *)
(***************************************************************************)
NoSegment ==
    [segment_id |-> PyStr(""), start_lat |-> PyStr(""), start_lng |-> PyStr(""),
     end_lat |-> PyStr(""), end_lng |-> PyStr("")]

\* nothing has run: neither file exists
Init ==
    /\ ROADS = <<>>
    /\ segFile = [exists |-> FALSE, lines |-> <<>>]
    /\ dataFile = [exists |-> FALSE, lines |-> <<>>]
    /\ segments = <<>>
    /\ genCount = 0
    /\ genCatalogue = <<>>
    /\ branch = "none"
    /\ pc = "idle"
    /\ exit = "none"
    /\ runs = 0
    /\ results = <<>>
    /\ spc = "idle"
    /\ attempt = 1
    /\ result = InitialResult(NoSegment)
    /\ content = <<>>
    /\ exc = "none"
    /\ gotoLog = <<>>
    /\ readAt = {}
    /\ backoffs = 0
    /\ lastAwait = 0

\* the roads of the whole-run specification: no road, or one road of two
\* points 4 m apart (one segment each way)
MainRoads == {<<>>, <<<<GridPoint(0), GridPoint(1)>>>>}

MainStart == main_start(MainRoads)

MainRead == inner_text(MainTexts)

\* runs of main() over short catalogues and the texts MainTexts
Next ==
    \/ MainStart
    \/ scrape_enter
    \/ page_goto
    \/ settle_wait
    \/ MainRead
    \/ parse_content
    \/ except_clause
    \/ scrape_return
    \/ main_append

Spec == Init /\ [][Next]_vars

\* calls of generate_segments (the first step of every run), over RoadInputs
SegCall ==
    /\ runs < MaxCalls
    /\ runs' = runs + 1
    /\ generate_segments(RoadInputs)
    /\ UNCHANGED <<dataFile, pc, exit, results, scrapeVars>>

NextSeg == SegCall

SpecSeg == Init /\ [][NextSeg]_vars

\* one run's loop over the catalogue of one road of two points, generated
\* by this run, with every text of PageTexts
ScrapeRoads == <<<<GridPoint(0), GridPoint(1)>>>>

InitScrape ==
    /\ ROADS = ScrapeRoads
    /\ genCatalogue = BuildSegments(ScrapeRoads, 1)
    /\ segments = genCatalogue
    /\ segFile = [exists |-> TRUE, lines |-> CatalogueLines(genCatalogue)]
    /\ dataFile = [exists |-> FALSE, lines |-> <<>>]
    /\ genCount = 1
    /\ branch = "generate"
    /\ pc = "loop"
    /\ exit = "none"
    /\ runs = 1
    /\ results = <<>>
    /\ spc = "idle"
    /\ attempt = 1
    /\ result = InitialResult(NoSegment)
    /\ content = <<>>
    /\ exc = "none"
    /\ gotoLog = <<>>
    /\ readAt = {}
    /\ backoffs = 0
    /\ lastAwait = 174

ScrapeRead == inner_text(PageTexts)

NextScrape ==
    \/ scrape_enter
    \/ page_goto
    \/ settle_wait
    \/ ScrapeRead
    \/ parse_content
    \/ except_clause
    \/ scrape_return

SpecScrape == InitScrape /\ [][NextScrape]_vars

(***************************************************************************)
(* Properties.                                                             *)
(***************************************************************************)
\* scrape_segment has returned the result of the segment gotoLog is about
Returned == spc = "idle" /\ results # <<>>

\* an exception has left scrape_segment
Raised == spc = "raised"

\* the last attempt read the text content and the try block ran to its
\* break
ParsedOk ==
    /\ spc = "return" \/ Returned
    /\ attempt \in readAt
    /\ result.status \in {"failed", "success"}

AllGotoTimeout == gotoLog # <<>> /\ \A i \in DOMAIN gotoLog : gotoLog[i] = "timeout"

\* C1: a run of main() yields one result per catalogue segment, in
\* catalogue order, and no fault of the rendering capability raised while a
\* segment is processed ends the run.
C1_OneResultPerSegment ==
    /\ exit # "scrape"
    /\ exit = "ok" =>
        /\ Len(results) = Len(segments)
        /\ \A k \in 1..Len(results) :
              Str(results[k].segment_id) = Str(segments[k].segment_id)

\* C2: when every navigation of a segment times out, scrape_segment ends
\* having issued exactly MAX_RETRIES page.goto calls, by returning a result.
C2_TimeoutsGiveMaxRetriesGotos ==
    (AllGotoTimeout /\ (Returned \/ Raised)) =>
        (Len(gotoLog) = MAX_RETRIES /\ Returned)

\* C3: a returned result's status is success, timeout, parse_error or
\* other_error: timeout when the retries ended on a timeout, parse_error
\* when the text was read and parsed without a usable sample.
C3_StatusEnum ==
    Returned =>
        /\ result.status \in {"success", "timeout", "parse_error", "other_error"}
        /\ (AllGotoTimeout /\ Len(gotoLog) = MAX_RETRIES) => result.status = "timeout"
        /\ (ParsedOk /\ result.avg_speed_kmh = None) => result.status = "parse_error"

\* C4: once the catalogue file exists the generation loop has run exactly
\* once, and every later call of generate_segments leaves the file as the
\* generating call wrote it and returns, field by field, the segments that
\* call built, in the same order.
C4_CatalogueStable ==
    /\ genCount = (IF segFile.exists THEN 1 ELSE 0)
    /\ branch = "load" =>
        /\ Render(segments) = Render(genCatalogue)
        /\ segFile.lines =
              (IF genCatalogue = <<>> THEN <<>> ELSE CatalogueLines(genCatalogue))

\* a third call has loaded a catalogue of several segments
C4_Witness ==
    /\ branch = "load"
    /\ runs = 3
    /\ Len(segments) >= 4
    /\ Len(ROADS) = 2

SegLength(seg) ==
    haversine(seg.start_lat.float, seg.start_lng.float, seg.end_lat.float, seg.end_lng.float)

\* C5: every generated segment is at most MAX_DIST_M long.
C5_SegmentsWithinMaxLength ==
    \A k \in DOMAIN genCatalogue :
        SegLength(genCatalogue[k]) <= MAX_DIST_M * UnitsPerM

HasDurationToken(text) ==
    \/ SearchNumUnit(text, Digits, U_h) # None
    \/ SearchNumUnit(text, Digits, U_min) # None

\* C6: a text with neither an hour nor a minute token leaves time_min None.
C6_NoTokenNoDuration ==
    (ParsedOk /\ ~HasDurationToken(content)) => result.time_min = None

\* C7: in every returned result avg_speed_kmh is present iff distance_km
\* and time_min are present and time_min > 0.
C7_AvgSpeedIff ==
    \A r \in Range(results) \cup (IF spc = "return" THEN {result} ELSE {}) :
        (r.avg_speed_kmh # None) <=>
            (r.distance_km # None /\ r.time_min # None /\ r.time_min[1] > 0)

\* one result with a speed, obtained on the retry after a ValueError, and
\* one with a distance and a zero duration
C7_Witness ==
    /\ Returned
    /\ Len(results) = 2
    /\ results[1].avg_speed_kmh # None
    /\ results[2].distance_km # None
    /\ results[2].time_min = Some(0)
    /\ results[2].avg_speed_kmh = None
    /\ readAt = {1, 2}

\* the text gives lines 142-152 a duration above zero and a distance
Usable(text) ==
    LET p == ParseContent(InitialResult(NoSegment), text)
    IN  ~p.raised /\ p.result.status = "success"

\* C8: after an attempt whose text was read but is not usable, no further
\* page.goto is issued for the segment.
C8_NoRetryAfterRead ==
    \A a \in readAt :
        (a + 1 \notin readAt /\ ~Usable(content)) => Len(gotoLog) <= a

\* hours * 60 + minutes of the first hour and minute components of text
ExpectedMinutes(text) ==
    60 * ParsedNumber(SearchNumUnit(text, Digits, U_h))
        + ParsedNumber(SearchNumUnit(text, Digits, U_min))

\* C9: a text with an hour or a minute component, wherever it stands,
\* gives time_min = hours * 60 + minutes.
C9_DurationOfFirstMatch ==
    (ParsedOk /\ HasDurationToken(content)) =>
        result.time_min = Some(ExpectedMinutes(content))

\* a number followed by the unit m as a word of its own
MetreSearch(text) ==
    LET hits == {p \in 1..Len(text) :
                    LET e == NumUnitAt(text, p, DigitsDot, <<"m">>)
                    IN  e # 0 /\ (e > Len(text) \/ text[e] \in Spaces)}
    IN  IF hits = {} THEN None
        ELSE LET p == CHOOSE q \in hits : \A r \in hits : q <= r
             IN  Some([group1 |-> SubSeq(text, p, SkipWhile(text, p, DigitsDot) - 1)])

\* C10: distance_km is the kilometre number when there is one, else the
\* metre number divided by 1000, and None only when the text has neither.
C10_DistanceKmOrMetres ==
    ParsedOk =>
        LET km == SearchNumUnit(content, DigitsDot, U_km)
            mt == MetreSearch(content)
        IN  /\ km # None => result.distance_km = Some(PyFloatOf(km[1].group1))
            /\ (km = None /\ mt # None) =>
                  result.distance_km = Some(PyFloatOf(mt[1].group1) \div 1000)
            /\ (km = None /\ mt = None) => result.distance_km = None

(***************************************************************************)
(* The generated catalogue against ROADS.                                  *)
(***************************************************************************)
SegStart(seg) == <<seg.start_lat.float, seg.start_lng.float>>

SegEnd(seg) == <<seg.end_lat.float, seg.end_lng.float>>

\* the number of segments a pair of consecutive points is cut into
ExpectedSteps(p, q) ==
    Max(1, haversine(p[1], p[2], q[1], q[2]) \div (MAX_DIST_M * UnitsPerM))

RECURSIVE DirLen(_)
DirLen(points) ==
    IF Len(points) < 2 THEN 0
    ELSE ExpectedSteps(points[1], points[2]) + DirLen(Tail(points))

\* the traversals in catalogue order: each road forward, then reversed
RECURSIVE Directions(_)
Directions(roads) ==
    IF roads = <<>> THEN <<>>
    ELSE <<Head(roads), Reversed(Head(roads))>> \o Directions(Tail(roads))

\* the number of segments before traversal d
RECURSIVE Offset(_, _)
Offset(dirs, d) == IF d = 1 THEN 0 ELSE Offset(dirs, d - 1) + DirLen(dirs[d - 1])

C12_IdsCount ==
    \A k \in DOMAIN genCatalogue : genCatalogue[k].segment_id = PyStr(ToString(k))

\* two roads of two or more points each, both directions of both generated
C12_Witness ==
    /\ branch = "generate"
    /\ Len(ROADS) = 2
    /\ \A r \in DOMAIN ROADS : Len(ROADS[r]) >= 2
    /\ Len(genCatalogue) >= 5

\* C13: no generated segment has zero length
C13_NoZeroLength ==
    \A k \in DOMAIN genCatalogue : SegStart(genCatalogue[k]) # SegEnd(genCatalogue[k])

HasShortRoute == \E r \in DOMAIN ROADS : Len(ROADS[r]) < 2

LongRoutes == SelectSeq(ROADS, LAMBDA points : Len(points) >= 2)

\* C14: a generating call whose ROADS holds a route of fewer than two points
\* fails with InvalidGeometry for that route, the other routes still being
\* segmented
C14_ShortRouteRejected ==
    (branch \in {"generate", "raise"} /\ HasShortRoute) =>
        /\ RaisedException = "InvalidGeometry"
        /\ genCatalogue = BuildSegments(LongRoutes, 1)

(***************************************************************************)
(* Runs of main and the data file.                                         *)
(***************************************************************************)
\* C15: a run whose catalogue is empty, freshly generated or loaded from the
\* persisted file, aborts: it does not run to the end and record itself in
\* the data file.
C15_EmptyCatalogueAborts ==
    (pc = "idle" /\ runs >= 1 /\ segments = <<>>) => exit # "ok"

\* the awaits of scrape_segment (lines 135-157)
ScrapeAwaits == {135, 136, 138, 157}

\* C16: when the first navigation of a segment after the first is about to
\* be issued, the last thing the run waited for is a pacing delay of the run
\* loop, not an await of the previous segment's scrape_segment.
C16_PacedBetweenSegments ==
    (spc = "goto" /\ gotoLog = <<>> /\ Len(results) >= 1) =>
        lastAwait \notin ScrapeAwaits

\* C17: the backoff wait is applied only before a retry: a returned segment
\* has waited once per retry, one less than its page.goto calls.
C17_BackoffOnlyBeforeRetry ==
    Returned => backoffs = Len(gotoLog) - 1

\* C18: a returned result whose status is not success has time_min,
\* distance_km and avg_speed_kmh all None.
C18_NonSuccessNullMetrics ==
    Returned =>
        (result.status # "success" =>
            /\ result.time_min = None
            /\ result.distance_km = None
            /\ result.avg_speed_kmh = None)

\* C19: when scrape_segment has ended, the number of page.goto calls is the
\* index of the attempt that ran to its break, or MAX_RETRIES when every
\* attempt raised; the status is an error exactly in the latter case, and
\* an attempt that parsed a positive duration and a distance gives success.
C19_GotosAndStatus ==
    (Returned \/ Raised) =>
        IF Returned /\ ParsedOk
        THEN /\ Len(gotoLog) = attempt
             /\ Usable(content) => result.status = "success"
        ELSE /\ Len(gotoLog) = MAX_RETRIES
             /\ Returned
             /\ result.status \notin {"failed", "success"}

\* the data file's header is its first line and no other
HeaderOnceFirst ==
    IF dataFile.exists
    THEN /\ dataFile.lines # <<>>
         /\ dataFile.lines[1] = CSV_HEADERS
         /\ \A k \in 2..Len(dataFile.lines) : dataFile.lines[k] # CSV_HEADERS
    ELSE dataFile.lines = <<>>

\* the only change of the data file: a run whose loop has covered the
\* catalogue completes and its results follow, in their order, what the
\* file held
AppendsCompletedRun ==
    dataFile' # dataFile =>
        /\ pc = "loop"
        /\ Len(results) = Len(segments)
        /\ exit' = "ok"
        /\ \E head \in {<<>>, <<CSV_HEADERS>>} :
              dataFile'.lines =
                 dataFile.lines \o head \o [k \in 1..Len(results) |-> ResultRow(results[k])]

\* C20: the data file holds the header exactly once, as its first row; it
\* changes only when a run completes, by that run's results being appended
\* in catalogue order after the rows of the earlier runs, which stay as they
\* are; a run that aborts appends nothing.
C20_DataFileAppendOnly ==
    /\ []HeaderOnceFirst
    /\ [][AppendsCompletedRun]_vars

\* two completed runs of two results each have been recorded
C20_Witness ==
    /\ pc = "idle"
    /\ exit = "ok"
    /\ runs = 2
    /\ Len(dataFile.lines) = 5

====
